---------------------------- MODULE Spec2Model ----------------------------
(***************************************************************************)
(* Model of the sales dashboard page Category_edit.py.                     *)
(*                                                                         *)
(* The page is a Streamlit script: load_data() reads the two CSV exports   *)
(* once (it is cached), and the whole script body is re-executed every     *)
(* time a sidebar widget changes.  The state is therefore the loaded       *)
(* dataset, the widget values, and the values the last execution of the    *)
(* script produced (the streak table of tab 2, the pair table of tab 3,    *)
(* or the exception that stopped the script).                              *)
(*                                                                         *)
(* Data frames are sequences of records (one record per row, in row        *)
(* order).  df_orders is keyed by order_id (the primary key of the         *)
(* exported table): it is a function from the order ids 1..k to the        *)
(* order's row.  Product ids (selling_sku_id), order ids and months are    *)
(* small integers; their integer order stands for the string order of the  *)
(* source.  A Counter / dict is a sequence of entries in insertion order,  *)
(* which is the iteration order of a Python dict.                          *)
(***************************************************************************)
EXTENDS Integers, Sequences, FiniteSets, TLC

(***************************************************************************)
(* Bounds of the model.  Spec loads up to MaxItems line items with any     *)
(* amount, over any table of orders; SpecBasket loads up to MaxBasketItems *)
(* line items of three products over two orders.                           *)
(***************************************************************************)
MaxItems == 2           \* rows of the order_items export (Spec)
MaxBasketItems == 4     \* rows of the order_items export (SpecBasket)
MaxTopK == 2            \* SpecBasket draws the cut from 1..MaxTopK and TopK
MaxCalls == 2           \* calls of match_skus_and_upload (SpecImport)

OrderIds == 1..2                 \* order ids; df_orders holds a prefix of them
Skus == 1..2                     \* product ids of Spec
BasketSkus == 1..3               \* product ids of SpecBasket
Months == 1..2                   \* order_month values, the largest most recent

(***************************************************************************)
(* Missing values.  A left merge leaves NaN in the order columns of an     *)
(* item whose order_id matches no order; read_csv leaves NaN in an empty   *)
(* subtotal cell.                                                          *)
(***************************************************************************)
NaN == -99
NaNName == "NaN"
Amounts == {NaN, 0, 1, -1}

TopK == 20

VARIABLES
    df_items,            \* rows [order_id, selling_sku_id, subtotal]
    df_orders,           \* order_id |-> [platform_name, order_month]
    selected_platforms,  \* value of the platform multiselect
    selected_month,      \* value of the range slider, <<start, end>>
    topK,                \* argument of most_common
    raised,              \* exception that stopped the last run, or "none"
    latest_months,       \* tab 2: period list, most recent first
    streaks,             \* tab 2: selling_sku_id |-> current_streak
    tab3,                \* tab 3: "pairs", "info" or "not_reached"
    df_pairs,            \* tab 3: rows [a, b, Frequency]
    df_bindings,         \* product.platform_bindings: external sku |-> sku
    sales_orders,        \* table sales.orders, rows in insertion order
    sales_order_items,   \* table sales.order_items, rows in insertion order
    df_clean,            \* the file of the last match_skus_and_upload call
    returned,            \* its result: "none" (no call yet), "True", "False"
    calls                \* number of match_skus_and_upload calls so far

import_vars == <<df_bindings, sales_orders, sales_order_items, df_clean,
                 returned, calls>>

vars == <<df_items, df_orders, selected_platforms, selected_month, topK,
          raised, latest_months, streaks, tab3, df_pairs,
          df_bindings, sales_orders, sales_order_items, df_clean,
          returned, calls>>

(***************************************************************************)
(* Generic helpers on finite sets and sequences.                           *)
(***************************************************************************)
SetMax(S) == CHOOSE x \in S : \A y \in S : y <= x
SetMin(S) == CHOOSE x \in S : \A y \in S : x <= y

RECURSIVE SortedAsc(_)
SortedAsc(S) == IF S = {} THEN <<>>
                ELSE <<SetMin(S)>> \o SortedAsc(S \ {SetMin(S)})

RECURSIVE SortedDesc(_)
SortedDesc(S) == IF S = {} THEN <<>>
                 ELSE <<SetMax(S)>> \o SortedDesc(S \ {SetMax(S)})

Range(s) == {s[i] : i \in DOMAIN s}


(***************************************************************************)
(* load_data: df_merged = df_items.merge(df_orders, on='order_id',         *)
(* how='left').  Every item row is kept, in row order; the order columns   *)
(* of an item whose order_id is not in df_orders are NaN.                  *)
(***************************************************************************)
df_merged(items, orders) ==
    [i \in 1..Len(items) |->
        IF items[i].order_id \in DOMAIN orders
        THEN [order_id       |-> items[i].order_id,
              selling_sku_id |-> items[i].selling_sku_id,
              subtotal       |-> items[i].subtotal,
              platform_name  |-> orders[items[i].order_id].platform_name,
              order_month    |-> orders[items[i].order_id].order_month]
        ELSE [order_id       |-> items[i].order_id,
              selling_sku_id |-> items[i].selling_sku_id,
              subtotal       |-> items[i].subtotal,
              platform_name  |-> NaNName,
              order_month    |-> NaN]]

(***************************************************************************)
(* Sidebar: the options of the two filter widgets.                         *)
(***************************************************************************)
available_platforms(orders) ==
    {orders[o].platform_name : o \in DOMAIN orders}

available_months(orders) ==
    SortedAsc({orders[o].order_month : o \in DOMAIN orders})

(***************************************************************************)
(* mask_merged: a comparison with NaN is False, and NaN is in no           *)
(* selection, so the rows of unmatched items never pass the filter.        *)
(***************************************************************************)
mask_merged(row, platforms, month_range) ==
    /\ row.platform_name \in platforms
    /\ row.order_month # NaN
    /\ row.order_month >= month_range[1]
    /\ row.order_month <= month_range[2]

df_merged_filtered(merged, platforms, month_range) ==
    SelectSeq(merged, LAMBDA row : mask_merged(row, platforms, month_range))

(***************************************************************************)
(* Tab 2.  pivot_table groups the rows of the FULL merged frame by         *)
(* (selling_sku_id, order_month); rows whose order_month is NaN are        *)
(* dropped by the grouping, sum skips NaN subtotals (an all-NaN group sums *)
(* to 0), and fillna(0) fills the (sku, month) cells that have no row.     *)
(***************************************************************************)
RECURSIVE SumSubtotal(_, _, _, _)
SumSubtotal(merged, sku, month, i) ==
    IF i > Len(merged) THEN 0
    ELSE (IF /\ merged[i].selling_sku_id = sku
             /\ merged[i].order_month = month
             /\ merged[i].subtotal # NaN
          THEN merged[i].subtotal ELSE 0)
         + SumSubtotal(merged, sku, month, i + 1)

pivot_monthly(src) ==
    LET rows == {i \in 1..Len(src) : src[i].order_month # NaN}
        idx  == {src[i].selling_sku_id : i \in rows}
        cols == {src[i].order_month : i \in rows}
    IN  [sku \in idx |-> [month \in cols |-> SumSubtotal(src, sku, month, 1)]]

(***************************************************************************)
(* latest_months = sorted(df_merged['order_month'].unique(), reverse=True) *)
(* unique() keeps NaN; sorted() compares a float NaN with a month string   *)
(* and raises TypeError as soon as there are two values to compare.        *)
(***************************************************************************)
unique_months(merged) == {merged[i].order_month : i \in 1..Len(merged)}

latest_months_raises(merged) ==
    /\ NaN \in unique_months(merged)
    /\ Cardinality(unique_months(merged)) > 1

\* Faulty variant: sorted() without reverse=True.
latest_months_ascending(merged) == SortedAsc(unique_months(merged))

latest_months_of(merged) == SortedDesc(unique_months(merged))

(***************************************************************************)
(* The streak loop: walk latest_months from the most recent month, count   *)
(* while row[month] > 0, break at the first month that is not.             *)
(***************************************************************************)
\* Faulty variant: the loop without its break counts every positive month.
RECURSIVE current_streak_no_break(_, _, _, _)
current_streak_no_break(row, months, i, count) ==
    IF i > Len(months) THEN count
    ELSE current_streak_no_break(row, months, i + 1,
            IF row[months[i]] > 0 THEN count + 1 ELSE count)

\* Faulty variant: row[month] >= 0 in place of row[month] > 0.
RECURSIVE current_streak_ge(_, _, _, _)
current_streak_ge(row, months, i, count) ==
    IF i > Len(months) THEN count
    ELSE IF row[months[i]] >= 0
         THEN current_streak_ge(row, months, i + 1, count + 1)
         ELSE count

RECURSIVE current_streak(_, _, _, _)
current_streak(row, months, i, count) ==
    IF i > Len(months) THEN count
    ELSE IF row[months[i]] > 0
         THEN current_streak(row, months, i + 1, count + 1)
         ELSE count

streaks_of(merged) ==
    LET pivot  == pivot_monthly(merged)
        months == latest_months_of(merged)
    IN  [sku \in DOMAIN pivot |-> current_streak(pivot[sku], months, 1, 0)]


(***************************************************************************)
(* Tab 3.  order_counts counts the line items of every order of the        *)
(* filtered frame; df_basket keeps the rows of the orders with more than   *)
(* one line item.                                                          *)
(***************************************************************************)
order_counts(filtered) ==
    [o \in {filtered[i].order_id : i \in 1..Len(filtered)} |->
        Cardinality({i \in 1..Len(filtered) : filtered[i].order_id = o})]

\* Faulty variant: order_counts >= 1 in place of order_counts > 1.
multi_item_orders_ge(filtered) ==
    LET counts == order_counts(filtered)
    IN  {o \in DOMAIN counts : counts[o] >= 1}

multi_item_orders(filtered) ==
    LET counts == order_counts(filtered)
    IN  {o \in DOMAIN counts : counts[o] > 1}

df_basket(filtered) ==
    LET multi == multi_item_orders(filtered)
    IN  SelectSeq(filtered, LAMBDA row : row.order_id \in multi)

(***************************************************************************)
(* baskets = df_basket.groupby('order_id')['selling_sku_id'].apply(list):  *)
(* one list per order, orders in ascending order_id, each list in row      *)
(* order.                                                                  *)
(***************************************************************************)
RECURSIVE basket_of(_, _, _)
basket_of(basket, o, i) ==
    IF i > Len(basket) THEN <<>>
    ELSE (IF basket[i].order_id = o THEN <<basket[i].selling_sku_id>> ELSE <<>>)
         \o basket_of(basket, o, i + 1)

baskets(basket) ==
    LET ids == SortedAsc({basket[i].order_id : i \in 1..Len(basket)})
    IN  [k \in 1..Len(ids) |-> basket_of(basket, ids[k], 1)]

(***************************************************************************)
(* sorted(products): insertion sort, ascending; equal elements are kept.   *)
(***************************************************************************)
RECURSIVE insert_sorted(_, _)
insert_sorted(s, x) ==
    IF s = <<>> THEN <<x>>
    ELSE IF x < Head(s) THEN <<x>> \o s
         ELSE <<Head(s)>> \o insert_sorted(Tail(s), x)

RECURSIVE sorted(_)
sorted(s) == IF s = <<>> THEN <<>>
             ELSE insert_sorted(sorted(SubSeq(s, 1, Len(s) - 1)), s[Len(s)])

(***************************************************************************)
(* itertools.combinations(products, 2): the pairs of POSITIONS i < j, in   *)
(* lexicographic order of (i, j).  Equal elements at two positions give a  *)
(* pair of equal elements.                                                 *)
(***************************************************************************)
RECURSIVE combinations_from(_, _, _)
combinations_from(products, i, j) ==
    IF i >= Len(products) THEN <<>>
    ELSE IF j > Len(products) THEN combinations_from(products, i + 1, i + 2)
         ELSE <<<<products[i], products[j]>>>>
              \o combinations_from(products, i, j + 1)

combinations2(products) == combinations_from(products, 1, 2)

(***************************************************************************)
(* Counter.update(iterable): count[elem] += 1 for every element; a new key *)
(* is appended to the dict, an existing key keeps its position.            *)
(***************************************************************************)
counter_add(counter, key) ==
    IF \E k \in 1..Len(counter) : counter[k].key = key
    THEN [k \in 1..Len(counter) |->
            IF counter[k].key = key
            THEN [key |-> key, count |-> counter[k].count + 1]
            ELSE counter[k]]
    ELSE Append(counter, [key |-> key, count |-> 1])

RECURSIVE counter_update(_, _)
counter_update(counter, elems) ==
    IF elems = <<>> THEN counter
    ELSE counter_update(counter_add(counter, Head(elems)), Tail(elems))

RECURSIVE pair_counts_from(_, _, _)
pair_counts_from(bs, k, counter) ==
    IF k > Len(bs) THEN counter
    ELSE pair_counts_from(bs, k + 1,
            counter_update(counter, combinations2(sorted(bs[k]))))

pair_counts(basket) == pair_counts_from(baskets(basket), 1, <<>>)

(***************************************************************************)
(* Counter.most_common(n) = heapq.nlargest(n, items, key=count), which is  *)
(* sorted(items, key=count, reverse=True)[:n]: a stable sort, so entries   *)
(* with equal counts stay in insertion order.                              *)
(***************************************************************************)
\* Faulty variant: an unstable sort that puts a later tie first.
RECURSIVE insert_by_count_ge(_, _)
insert_by_count_ge(s, e) ==
    IF s = <<>> THEN <<e>>
    ELSE IF e.count >= Head(s).count THEN <<e>> \o s
         ELSE <<Head(s)>> \o insert_by_count_ge(Tail(s), e)

RECURSIVE insert_by_count(_, _)
insert_by_count(s, e) ==
    IF s = <<>> THEN <<e>>
    ELSE IF e.count > Head(s).count THEN <<e>> \o s
         ELSE <<Head(s)>> \o insert_by_count(Tail(s), e)

RECURSIVE sorted_by_count(_)
sorted_by_count(s) ==
    IF s = <<>> THEN <<>>
    ELSE insert_by_count(sorted_by_count(SubSeq(s, 1, Len(s) - 1)), s[Len(s)])

Take(s, n) == SubSeq(s, 1, IF n < Len(s) THEN n ELSE Len(s))

\* Faulty variant: the first n entries in insertion order, unsorted.
most_common_unsorted(counter, n) == Take(counter, n)

most_common(counter, n) == Take(sorted_by_count(counter), n)

df_pairs_of(basket, n) ==
    LET top == most_common(pair_counts(basket), n)
    IN  [k \in 1..Len(top) |->
            [a |-> top[k].key[1], b |-> top[k].key[2],
             Frequency |-> top[k].count]]


(***************************************************************************)
(* The frame tab 2 reads (lines 189-190): the full merged frame, whatever  *)
(* the filters.                                                            *)
(***************************************************************************)
\* Faulty variant: tab 2 reading df_merged_filtered.
streak_frame_filtered(merged, filtered) == filtered

streak_frame(merged, filtered) == merged

(***************************************************************************)
(* One execution of the script body (lines 58-261) on the cached frames    *)
(* and the current widget values.  An uncaught exception stops the script: *)
(* nothing after the raising line is computed.                             *)
(*   line 69:  available_months[0] raises IndexError when df_orders has    *)
(*             no row;                                                     *)
(*   line 190: sorted() raises TypeError (see latest_months_raises).       *)
(***************************************************************************)
NotRun(exception) ==
    [raised |-> exception, latest_months |-> <<>>, streaks |-> <<>>,
     tab3 |-> "not_reached", df_pairs |-> <<>>]

Script(items, orders, platforms, month_range, n) ==
    LET merged   == df_merged(items, orders)
        filtered == df_merged_filtered(merged, platforms, month_range)
        frame    == streak_frame(merged, filtered)
        basket   == df_basket(filtered)
    IN  IF available_months(orders) = <<>> THEN NotRun("IndexError")
        ELSE IF latest_months_raises(frame) THEN NotRun("TypeError")
        ELSE [raised        |-> "none",
              latest_months |-> latest_months_of(frame),
              streaks       |-> streaks_of(frame),
              tab3          |-> IF basket # <<>> THEN "pairs" ELSE "info",
              df_pairs      |-> IF basket # <<>> THEN df_pairs_of(basket, n)
                                ELSE <<>>]

(***************************************************************************)
(* The default widget values (lines 65 and 69): every platform, and the    *)
(* whole month range.                                                      *)
(***************************************************************************)
default_platforms(orders) == available_platforms(orders)

default_month(orders) ==
    IF available_months(orders) = <<>> THEN <<NaN, NaN>>
    ELSE <<available_months(orders)[1],
           available_months(orders)[Len(available_months(orders))]>>

Rerun(platforms, month_range) ==
    LET out == Script(df_items, df_orders, platforms, month_range, topK)
    IN  /\ selected_platforms' = platforms
        /\ selected_month' = month_range
        /\ raised' = out.raised
        /\ latest_months' = out.latest_months
        /\ streaks' = out.streaks
        /\ tab3' = out.tab3
        /\ df_pairs' = out.df_pairs
        /\ UNCHANGED <<df_items, df_orders, topK>>
        /\ UNCHANGED import_vars

(***************************************************************************)
(* The datasets load_data can return, within the bounds.  The orders are   *)
(* the order ids 1..k, placed alternately on the two platforms, each in    *)
(* any month; a line item names any order id, so that with k smaller than  *)
(* the largest order id some line items match no order.                    *)
(***************************************************************************)
SeqsUpTo(S, n) == UNION {[1..k -> S] : k \in 0..n}

PlatformOf(o) == IF o % 2 = 1 THEN "Shopee" ELSE "Tiktok"

OrderTable(months) ==
    [o \in DOMAIN months |->
        [platform_name |-> PlatformOf(o), order_month |-> months[o]]]

OrderTables ==
    {OrderTable(months) : months \in UNION {[1..k -> Months] : k \in {0} \cup OrderIds}}

GroupedByOrder(items) ==
    \A i \in 1..(Len(items) - 1) : items[i].order_id <= items[i + 1].order_id

ItemRows(skus, amounts) ==
    [order_id : OrderIds, selling_sku_id : skus, subtotal : amounts]

FirstRun(n) ==
    LET out == Script(df_items, df_orders, default_platforms(df_orders),
                      default_month(df_orders), n)
    IN  /\ selected_platforms = default_platforms(df_orders)
        /\ selected_month = default_month(df_orders)
        /\ topK = n
        /\ raised = out.raised
        /\ latest_months = out.latest_months
        /\ streaks = out.streaks
        /\ tab3 = out.tab3
        /\ df_pairs = out.df_pairs

(***************************************************************************)
(* The import page has not been used: the dashboard page never writes the  *)
(* database.                                                               *)
(***************************************************************************)
NoImport ==
    /\ df_bindings = <<>>
    /\ sales_orders = <<>>
    /\ sales_order_items = <<>>
    /\ df_clean = <<>>
    /\ returned = "none"
    /\ calls = 0

Init ==
    /\ df_orders \in OrderTables
    /\ df_items \in SeqsUpTo(ItemRows(Skus, Amounts), MaxItems)
    /\ FirstRun(TopK)
    /\ NoImport

(***************************************************************************)
(* The user changes the platform multiselect: the script runs again.       *)
(***************************************************************************)
SelectPlatforms ==
    \E platforms \in SUBSET available_platforms(df_orders) :
        /\ platforms # selected_platforms
        /\ Rerun(platforms, selected_month)

(***************************************************************************)
(* The user moves the month range slider: the script runs again.  The      *)
(* slider exists only when line 69 did not raise.                          *)
(***************************************************************************)
SelectMonthRange ==
    /\ available_months(df_orders) # <<>>
    /\ \E s, e \in Range(available_months(df_orders)) :
        /\ s <= e
        /\ <<s, e>> # selected_month
        /\ Rerun(selected_platforms, <<s, e>>)

Next == SelectPlatforms \/ SelectMonthRange

Spec == Init /\ [][Next]_vars

(***************************************************************************)
(* The pair counter as a function of its records and its cut: the same     *)
(* program, loaded with baskets of up to MaxBasketItems line items of      *)
(* positive amount, exported order by order (the line items of an order   *)
(* in any order), every order in its own month, and most_common called     *)
(* with a cut drawn from 1..MaxTopK as well as with the 20 of the source.  *)
(***************************************************************************)
InitBasket ==
    /\ df_orders = OrderTable([o \in OrderIds |-> o])
    /\ df_items \in {items \in SeqsUpTo(ItemRows(BasketSkus, {1}), MaxBasketItems) :
                        GroupedByOrder(items)}
    /\ \E n \in (1..MaxTopK) \cup {TopK} : FirstRun(n)
    /\ NoImport

SpecBasket == InitBasket /\ [][Next]_vars


(***************************************************************************)
(* The import page, pages/import_orders.py.  process_tiktok and            *)
(* process_lazada turn the uploaded file into df_clean, rows               *)
(* [order_id, platform_sku_original, quantity, unit_price]; the platform *)
(* and order_date columns are carried to sales.orders as they are and are  *)
(* left out.  A file has FileLengths rows.  product.platform_bindings maps some of the platform skus  *)
(* to a selling_sku_id.  A database row carries, next to its columns, the  *)
(* number of the call that wrote it (call), a history field the properties *)
(* read.                                                                   *)
(***************************************************************************)
PlatformSkus == 1..2
SellingSku(external) == external + 10
Quantities == {NaN, 1}
UnitPrices == {2}

CleanRows ==
    [order_id : OrderIds, platform_sku_original : PlatformSkus,
     quantity : Quantities, unit_price : UnitPrices]

FileLengths == 0..2

Files == UNION {[1..k -> CleanRows] : k \in FileLengths}

BindingTables ==
    {[external \in S |-> SellingSku(external)] : S \in SUBSET PlatformSkus}

(***************************************************************************)
(* pd.merge(df_clean, df_bindings, how='left'): every file row is kept;    *)
(* selling_sku_id is NaN on a row whose platform sku has no binding.       *)
(***************************************************************************)
merged_df(clean, bindings) ==
    [i \in 1..Len(clean) |->
        [order_id              |-> clean[i].order_id,
         platform_sku_original |-> clean[i].platform_sku_original,
         quantity              |-> clean[i].quantity,
         unit_price            |-> clean[i].unit_price,
         selling_sku_id        |->
            IF clean[i].platform_sku_original \in DOMAIN bindings
            THEN bindings[clean[i].platform_sku_original]
            ELSE NaN]]

\* Faulty variant: the unknown-sku check finds nothing.
unmapped_none(merged) == <<>>

unmapped(merged) ==
    SelectSeq(merged, LAMBDA row : row.selling_sku_id = NaN)

(***************************************************************************)
(* Lines 94-106: quantity.fillna(0), subtotal = unit_price * quantity, and *)
(* total_amount = the sum of the subtotals of the order.                   *)
(***************************************************************************)
line_subtotal(row) ==
    row.unit_price * (IF row.quantity = NaN THEN 0 ELSE row.quantity)

RECURSIVE order_total(_, _, _)
order_total(merged, o, i) ==
    IF i > Len(merged) THEN 0
    ELSE (IF merged[i].order_id = o THEN line_subtotal(merged[i]) ELSE 0)
         + order_total(merged, o, i + 1)

(***************************************************************************)
(* orders_data: drop_duplicates(subset='order_id') keeps the first row of  *)
(* every order, in row order.  items_data: one row per file row.           *)
(***************************************************************************)
orders_data(merged, call) ==
    LET firsts == SelectSeq([i \in 1..Len(merged) |-> i],
                    LAMBDA i : \A j \in 1..(i - 1) :
                                    merged[j].order_id # merged[i].order_id)
    IN  [k \in 1..Len(firsts) |->
            [order_id     |-> merged[firsts[k]].order_id,
             total_amount |-> order_total(merged, merged[firsts[k]].order_id, 1),
             call         |-> call]]

items_data(merged, call) ==
    [i \in 1..Len(merged) |->
        [order_id              |-> merged[i].order_id,
         selling_sku_id        |-> merged[i].selling_sku_id,
         platform_sku_original |-> merged[i].platform_sku_original,
         quantity              |-> IF merged[i].quantity = NaN THEN 0
                                   ELSE merged[i].quantity,
         subtotal              |-> line_subtotal(merged[i]),
         call                  |-> call]]

(***************************************************************************)
(* match_skus_and_upload(df_clean), lines 70-124.  Each to_sql call is its *)
(* own transaction on the engine: it appends all its rows and commits, or  *)
(* raises (a constraint, a lost connection) and appends nothing.  The two  *)
(* booleans are the outcomes of the two writes.                            *)
(*   - an unknown sku: return False before any write (line 92);            *)
(*   - the header write raises: nothing written, return False (line 124);  *)
(*   - the item write raises: the headers of line 115 are committed        *)
(*     already and stay, return False (line 124);                          *)
(*   - otherwise both tables are appended, return True (line 121).         *)
(***************************************************************************)
upload_result(clean, bindings, orders, items, call, orders_ok, items_ok) ==
    LET merged == merged_df(clean, bindings)
    IN  IF unmapped(merged) # <<>>
        THEN [returned |-> "False", orders |-> orders, items |-> items]
        ELSE IF ~orders_ok
        THEN [returned |-> "False", orders |-> orders, items |-> items]
        ELSE IF ~items_ok
        THEN [returned |-> "False",
              orders   |-> orders \o orders_data(merged, call),
              items    |-> items]
        ELSE [returned |-> "True",
              orders   |-> orders \o orders_data(merged, call),
              items    |-> items \o items_data(merged, call)]

match_skus_and_upload ==
    /\ calls < MaxCalls
    /\ \E clean \in Files : \E orders_ok, items_ok \in BOOLEAN :
        LET out == upload_result(clean, df_bindings, sales_orders,
                                 sales_order_items, calls + 1,
                                 orders_ok, items_ok)
        IN  /\ df_clean' = clean
            /\ calls' = calls + 1
            /\ returned' = out.returned
            /\ sales_orders' = out.orders
            /\ sales_order_items' = out.items
    /\ UNCHANGED <<df_bindings, df_items, df_orders, selected_platforms,
                   selected_month, topK, raised, latest_months, streaks,
                   tab3, df_pairs>>

(***************************************************************************)
(* The import page on its own: any binding table, both sales tables empty, *)
(* the dashboard page showing an empty dataset.                            *)
(***************************************************************************)
InitImport ==
    /\ df_bindings \in BindingTables
    /\ sales_orders = <<>>
    /\ sales_order_items = <<>>
    /\ df_clean = <<>>
    /\ returned = "none"
    /\ calls = 0
    /\ df_orders = <<>>
    /\ df_items = <<>>
    /\ FirstRun(TopK)

NextImport == match_skus_and_upload

SpecImport == InitImport /\ [][NextImport]_vars

(***************************************************************************)
(* The vocabulary of the properties, stated on the loaded records          *)
(* themselves (df_items joined to df_orders), not on the frames the script *)
(* derives.  A record is a line item; its period is the month of its       *)
(* order, and it has none when its order_id matches no order.              *)
(***************************************************************************)
Records == 1..Len(df_items)

RecordPeriod(i) ==
    IF df_items[i].order_id \in DOMAIN df_orders
    THEN df_orders[df_items[i].order_id].order_month
    ELSE NaN

Products == {df_items[i].selling_sku_id : i \in Records}

Periods == {RecordPeriod(i) : i \in Records} \ {NaN}

RECURSIVE SumAmounts(_)
SumAmounts(I) ==
    IF I = {} THEN 0
    ELSE LET i == CHOOSE x \in I : TRUE
         IN  df_items[i].subtotal + SumAmounts(I \ {i})

PeriodAmount(p, m) ==
    SumAmounts({i \in Records : /\ df_items[i].selling_sku_id = p
                                /\ RecordPeriod(i) = m
                                /\ df_items[i].subtotal # NaN})

PositivePrefix(p, k) ==
    \A i \in 1..k : PeriodAmount(p, latest_months[i]) > 0

LongestPositivePrefix(p) ==
    CHOOSE k \in 0..Len(latest_months) :
        /\ PositivePrefix(p, k)
        /\ \A j \in (k + 1)..Len(latest_months) : ~PositivePrefix(p, j)

(***************************************************************************)
(* C1.  For every product of the streak table, the streak is the length of *)
(* the longest prefix of the period list (most recent first) in which the  *)
(* product's summed amount is strictly positive in every period: the scan  *)
(* stops at the first period whose sum is zero or missing, and sales older *)
(* than that gap add nothing.                                              *)
(***************************************************************************)
C1_StreakIsLongestPositivePrefix ==
    raised = "none" =>
        \A p \in DOMAIN streaks : streaks[p] = LongestPositivePrefix(p)

\* A product with no sale in the most recent period and a sale in an older
\* one has streak 0, next to a product whose streak is counted.
C1_Witness ==
    /\ raised = "none"
    /\ \E p \in DOMAIN streaks :
        /\ streaks[p] = 0
        /\ \E i \in 2..Len(latest_months) : PeriodAmount(p, latest_months[i]) > 0
    /\ \E q \in DOMAIN streaks : streaks[q] >= 1

(***************************************************************************)
(* C2 as claimed.  On an input whose amounts are all present and           *)
(* non-negative, every product with at least one record in the most recent *)
(* period has a streak of at least 1.                                      *)
(***************************************************************************)
MostRecent == SetMax(Periods)

AmountsNonNegative ==
    \A i \in Records : df_items[i].subtotal # NaN /\ df_items[i].subtotal >= 0

C2_RecordInMostRecentGivesStreak ==
    (raised = "none" /\ AmountsNonNegative /\ Periods # {}) =>
        \A p \in Products :
            (\E i \in Records : /\ df_items[i].selling_sku_id = p
                                /\ RecordPeriod(i) = MostRecent)
            => (p \in DOMAIN streaks /\ streaks[p] >= 1)

(***************************************************************************)
(* C2 as amended.  Every product whose summed amount in the most recent    *)
(* period is strictly positive has a streak of at least 1.                 *)
(***************************************************************************)
C2_PositiveMostRecentGivesStreak ==
    (raised = "none" /\ Periods # {}) =>
        \A p \in Products :
            PeriodAmount(p, MostRecent) > 0
            => (p \in DOMAIN streaks /\ streaks[p] >= 1)

\* A product with a record of amount 0 and a record of positive amount in
\* the most recent period.
C2_Witness ==
    /\ raised = "none"
    /\ \E p \in DOMAIN streaks :
        /\ \E i \in Records : /\ df_items[i].selling_sku_id = p
                              /\ RecordPeriod(i) = MostRecent
                              /\ df_items[i].subtotal = 0
        /\ PeriodAmount(p, MostRecent) > 0
        /\ streaks[p] >= 1


(***************************************************************************)
(* C7.  The streak table is computed from the full dataset: a run of the   *)
(* script gives the period list of ALL records, most recent first, and a   *)
(* change of the platform filter or of the month range changes neither a   *)
(* streak, nor the period list, nor the maximum streak (its length).       *)
(***************************************************************************)
RecordPeriods == {RecordPeriod(i) : i \in Records}

IsDescendingListOf(list, S) ==
    /\ Range(list) = S
    /\ \A i \in 1..(Len(list) - 1) : list[i] > list[i + 1]

C7_StreaksIgnoreFilters ==
    /\ [](raised = "none" => IsDescendingListOf(latest_months, RecordPeriods))
    /\ [][/\ streaks' = streaks
          /\ latest_months' = latest_months
          /\ Len(latest_months') = Len(latest_months)]_vars

\* The filters let no record through, and the table still shows a streak
\* that spans two periods.
C7_Witness ==
    /\ raised = "none"
    /\ \A i \in Records :
        ~(/\ df_items[i].order_id \in DOMAIN df_orders
          /\ df_orders[df_items[i].order_id].platform_name \in selected_platforms
          /\ RecordPeriod(i) >= selected_month[1]
          /\ RecordPeriod(i) <= selected_month[2])
    /\ \E p \in DOMAIN streaks : streaks[p] = 2

(***************************************************************************)
(* C8 as claimed.  Once the script has reached tab 2, the streak table has *)
(* exactly one entry for every product that appears in at least one        *)
(* record, whether or not the record has a period or an amount.            *)
(***************************************************************************)
C8_EntryForEveryProduct ==
    raised # "IndexError" => DOMAIN streaks = Products

(***************************************************************************)
(* C9.  Every streak lies between 0 and the number of periods, and equals  *)
(* the number of periods exactly when the product's summed amount is       *)
(* strictly positive in every period.                                      *)
(***************************************************************************)
C9_StreakBoundedByPeriods ==
    raised = "none" =>
        \A p \in DOMAIN streaks :
            /\ 0 <= streaks[p]
            /\ streaks[p] <= Len(latest_months)
            /\ (streaks[p] = Len(latest_months)
                <=> \A m \in Periods : PeriodAmount(p, m) > 0)

\* Two periods and, under the default filters, a product that sells in
\* both: its streak is the number of periods.
C9_Witness ==
    /\ raised = "none"
    /\ Len(latest_months) = 2
    /\ selected_platforms = default_platforms(df_orders)
    /\ selected_month = default_month(df_orders)
    /\ \E p \in DOMAIN streaks :
        /\ streaks[p] = Len(latest_months)
        /\ \A m \in Periods : PeriodAmount(p, m) > 0

(***************************************************************************)
(* C10.  Empty input does not raise in either computation.  With no record *)
(* (and the sidebar built) the streak table is the empty mapping and the   *)
(* pair table the empty sequence; and whenever tab 3 is reached and no     *)
(* order of the filtered input has two or more line items, it shows no     *)
(* pair and takes the 'not enough multi-item orders' branch.               *)
(***************************************************************************)
PassesFilter(i) ==
    /\ df_items[i].order_id \in DOMAIN df_orders
    /\ df_orders[df_items[i].order_id].platform_name \in selected_platforms
    /\ RecordPeriod(i) >= selected_month[1]
    /\ RecordPeriod(i) <= selected_month[2]

LineItems(o) == {i \in Records : PassesFilter(i) /\ df_items[i].order_id = o}

Mult(o, a) ==
    Cardinality({i \in LineItems(o) : df_items[i].selling_sku_id = a})

Occurrences(o, pr) ==
    IF pr[1] = pr[2] THEN (Mult(o, pr[1]) * (Mult(o, pr[1]) - 1)) \div 2
    ELSE Mult(o, pr[1]) * Mult(o, pr[2])

RECURSIVE SumOccurrences(_, _)
SumOccurrences(O, pr) ==
    IF O = {} THEN 0
    ELSE LET o == CHOOSE x \in O : TRUE
         IN  Occurrences(o, pr) + SumOccurrences(O \ {o}, pr)

TotalCount(pr) == SumOccurrences(OrderIds, pr)

Observed ==
    {pr \in Products \X Products : pr[1] <= pr[2] /\ TotalCount(pr) > 0}

OrdersWithBoth(a, b) ==
    {o \in OrderIds : Mult(o, a) > 0 /\ Mult(o, b) > 0}

Pair(k) == <<df_pairs[k].a, df_pairs[k].b>>

Returned == {Pair(k) : k \in 1..Len(df_pairs)}

LexLess(p, q) == p[1] < q[1] \/ (p[1] = q[1] /\ p[2] < q[2])

(***************************************************************************)
(* C3 as claimed.  The count of every returned pair is the number of       *)
(* distinct orders in which both products of the pair appear.              *)
(***************************************************************************)
C3_CountIsNumberOfOrders ==
    \A k \in 1..Len(df_pairs) :
        df_pairs[k].Frequency =
            Cardinality(OrdersWithBoth(df_pairs[k].a, df_pairs[k].b))

(***************************************************************************)
(* C4 as claimed.  Every counted pair <<a, b>> has a < b (no self-pair),   *)
(* and when every order of the filtered input has exactly one distinct     *)
(* product no pair is counted at all.                                      *)
(***************************************************************************)
DistinctProducts(o) == {df_items[i].selling_sku_id : i \in LineItems(o)}

C4_NoSelfPair ==
    /\ \A k \in 1..Len(df_pairs) : df_pairs[k].a < df_pairs[k].b
    /\ (\A o \in OrderIds : Cardinality(DistinctProducts(o)) <= 1)
            => df_pairs = <<>>

(***************************************************************************)
(* C5 as claimed.  Returned pairs with equal counts are in ascending       *)
(* lexicographic order, and a pair that the cut leaves out of a group of   *)
(* tied pairs is lexicographically greater than the tied pairs returned.   *)
(* It is stated here for the inputs in which no order repeats a product,   *)
(* so that no self-pair and no inflated count takes part in a violation.   *)
(***************************************************************************)
NoRepeatedLineItem ==
    \A i, j \in Records :
        (/\ i # j
         /\ df_items[i].order_id = df_items[j].order_id)
        => df_items[i].selling_sku_id # df_items[j].selling_sku_id

C5_TiesLexicographic ==
    NoRepeatedLineItem =>
        /\ \A i, j \in 1..Len(df_pairs) :
            (i < j /\ df_pairs[i].Frequency = df_pairs[j].Frequency)
            => LexLess(Pair(i), Pair(j))
        /\ \A pr \in Observed \ Returned : \A k \in 1..Len(df_pairs) :
            TotalCount(pr) = df_pairs[k].Frequency => LexLess(Pair(k), pr)

(***************************************************************************)
(* C5 as amended.  Returned pairs with equal counts are in the order in    *)
(* which they were first counted: by ascending order_id of the first order *)
(* that holds the pair, and lexicographically within one order; a pair     *)
(* that the cut leaves out of a group of tied pairs was first counted      *)
(* after the tied pairs returned.                                          *)
(***************************************************************************)
FirstOrder(pr) == SetMin({o \in OrderIds : Occurrences(o, pr) > 0})

CountedBefore(p, q) ==
    \/ FirstOrder(p) < FirstOrder(q)
    \/ (FirstOrder(p) = FirstOrder(q) /\ LexLess(p, q))

C5_TiesInFirstCountedOrder ==
    LET left_out == Observed \ Returned
    IN  /\ \A i, j \in 1..Len(df_pairs) :
            (i < j /\ df_pairs[i].Frequency = df_pairs[j].Frequency)
            => CountedBefore(Pair(i), Pair(j))
        /\ \A pr \in left_out : \A k \in 1..Len(df_pairs) :
            TotalCount(pr) = df_pairs[k].Frequency => CountedBefore(Pair(k), pr)

\* Two tied pairs of distinct products are returned, the lexicographically
\* greater first.
C5_Witness ==
    /\ NoRepeatedLineItem
    /\ \E i, j \in 1..Len(df_pairs) :
        /\ i < j
        /\ df_pairs[i].Frequency = df_pairs[j].Frequency
        /\ LexLess(Pair(j), Pair(i))

(***************************************************************************)
(* C6.  The pair table holds exactly min(topK, number of observed pairs)   *)
(* rows, each an observed pair with its count; the counts are in           *)
(* non-increasing order, and no pair left out has a count greater than a   *)
(* pair that is returned.                                                  *)
(***************************************************************************)
Min(a, b) == IF a < b THEN a ELSE b

C6_TopKByCount ==
    LET observed == Observed
    IN  /\ Len(df_pairs) = Min(topK, Cardinality(observed))
        /\ \A k \in 1..Len(df_pairs) :
            Pair(k) \in observed /\ df_pairs[k].Frequency = TotalCount(Pair(k))
        /\ \A i, j \in 1..Len(df_pairs) : i < j => Pair(i) # Pair(j)
        /\ \A k \in 1..(Len(df_pairs) - 1) :
            df_pairs[k].Frequency >= df_pairs[k + 1].Frequency
        /\ \A pr \in observed \ Returned : \A k \in 1..Len(df_pairs) :
            TotalCount(pr) <= df_pairs[k].Frequency

\* The cut is smaller than the number of observed pairs, and a pair that is
\* left out has a smaller count than the pairs returned.
C6_Witness ==
    /\ topK < Cardinality(Observed)
    /\ Len(df_pairs) = topK
    /\ \E pr \in Observed \ Returned :
        TotalCount(pr) < df_pairs[Len(df_pairs)].Frequency


(***************************************************************************)
(* Vocabulary of the import properties.                                    *)
(***************************************************************************)
HasUnmappedSku(file) ==
    \E i \in 1..Len(file) : file[i].platform_sku_original \notin DOMAIN df_bindings

HasMappedSku(file) ==
    \E i \in 1..Len(file) : file[i].platform_sku_original \in DOMAIN df_bindings

WrittenBy(table, call) == SelectSeq(table, LAMBDA row : row.call = call)

(***************************************************************************)
(* C12.  A call of match_skus_and_upload on a file with at least one row   *)
(* whose platform sku has no binding returns False and leaves sales.orders *)
(* and sales.order_items as they were, whatever the other rows of the file *)
(* are.                                                                    *)
(***************************************************************************)
C12_UnmappedSkuWritesNothing ==
    [][(calls' = calls + 1 /\ HasUnmappedSku(df_clean'))
        => /\ returned' = "False"
           /\ sales_orders' = sales_orders
           /\ sales_order_items' = sales_order_items]_vars

\* A second call, after a call that wrote rows, rejected a file that has a
\* mapped row and an unmapped one.
C12_Witness ==
    /\ calls = 2
    /\ sales_orders # <<>>
    /\ sales_order_items # <<>>
    /\ HasUnmappedSku(df_clean)
    /\ HasMappedSku(df_clean)
    /\ returned = "False"
    /\ WrittenBy(sales_orders, calls) = <<>>
    /\ WrittenBy(sales_order_items, calls) = <<>>

(***************************************************************************)
(* C13.  A header a call wrote to sales.orders is there only with the line *)
(* items of that call in sales.order_items: a call that returned False     *)
(* left no row in either table, and a call that returned True appended its *)
(* headers and all its items.                                              *)
(***************************************************************************)
C13_HeadersOnlyWithItems ==
    /\ \A h \in Range(sales_orders) :
          \E it \in Range(sales_order_items) :
              it.call = h.call /\ it.order_id = h.order_id
    /\ returned = "False" =>
          /\ WrittenBy(sales_orders, calls) = <<>>
          /\ WrittenBy(sales_order_items, calls) = <<>>
    /\ returned = "True" =>
          /\ Len(WrittenBy(sales_order_items, calls)) = Len(df_clean)
          /\ \A i \in 1..Len(df_clean) :
                \E h \in Range(WrittenBy(sales_orders, calls)) :
                    h.order_id = df_clean[i].order_id

=============================================================================
